---- MODULE Spec2Model ----
(***************************************************************************)
(* A model of help_guess.py: the GameState class (turn, elim, green,       *)
(* yellow), generate_guesses and generate_ranked_guesses.                  *)
(*                                                                         *)
(* Positions are 0..4 as in the code.  A word is a function from 0..4 to   *)
(* one-character strings.  The dict `yellow` keeps insertion order in      *)
(* Python, and generate_guesses depends on that order, so it is a sequence *)
(* of records [letter, tried].                                             *)
(***************************************************************************)
EXTENDS Integers, Sequences, FiniteSets, TLC

VARIABLES turn, elim, green, yellow, words, fd, last

vars == <<turn, elim, green, yellow, words, fd, last>>

\* ------------------------------------------------------------------------
\* Program constants
\* ------------------------------------------------------------------------

\* range(5): the word length
WordLen == 5

\* increment_turn refuses to go past this turn
MaxTurn == 6

Positions == 0 .. (WordLen - 1)

\* string.ascii_lowercase, in order
ascii_lowercase ==
    << "a", "b", "c", "d", "e", "f", "g", "h", "i", "j", "k", "l", "m",
       "n", "o", "p", "q", "r", "s", "t", "u", "v", "w", "x", "y", "z" >>

Letters == { ascii_lowercase[i] : i \in 1 .. Len(ascii_lowercase) }

\* Python's None in green and green_found
None == "None"

\* a list of five None
NoWord == [p \in Positions |-> None]

\* What an operation reports when it returns normally
NoError == "ok"

\* ------------------------------------------------------------------------
\* Bounds of the model and the inputs drawn from them
\* ------------------------------------------------------------------------

\* how many words of GuessList the player may enter
NumGuesses == 2

\* how many label sequences of LabelList the player may enter
NumLabels == 4

\* how many words of Lexicon the dictionary holds
NumWords == 6

\* dictionary size and largest frequency in the ranking specification
RankWords == 3

MaxFreq == 1

Word(c0, c1, c2, c3, c4) ==
    [p \in Positions |-> << c0, c1, c2, c3, c4 >>[p + 1]]

Min(a, b) == IF a <= b THEN a ELSE b

GuessList ==
    << Word("a", "a", "a", "a", "b"),
       Word("b", "b", "b", "b", "a"),
       Word("a", "b", "b", "b", "b") >>

LabelList ==
    << Word("1", "1", "1", "1", "0"),
       Word("0", "1", "1", "1", "1"),
       Word("2", "0", "0", "0", "0"),
       Word("2", "1", "0", "0", "0"),
       Word("1", "0", "0", "0", "0"),
       Word("0", "0", "0", "0", "0") >>

Lexicon ==
    << Word("b", "d", "d", "d", "a"),
       Word("a", "b", "d", "d", "d"),
       Word("d", "d", "d", "d", "b"),
       Word("d", "d", "d", "d", "a"),
       Word("b", "d", "d", "d", "b"),
       Word("d", "a", "d", "d", "b"),
       Word("a", "d", "d", "d", "a") >>

\* the frequency of each word of Lexicon (0 when the corpus lacks it)
LexiconFreq == << 1, 1, 0, 2, 0, 1, 2 >>

Guesses == { GuessList[i] : i \in 1 .. Min(NumGuesses, Len(GuessList)) }

LabelSeqs == { LabelList[i] : i \in 1 .. Min(NumLabels, Len(LabelList)) }

\* ------------------------------------------------------------------------
\* Small helpers standing for Python built-ins
\* ------------------------------------------------------------------------

\* ord(): the rank of a letter in ascii_lowercase
Ord(c) == CHOOSE i \in 1 .. Len(ascii_lowercase) : ascii_lowercase[i] = c

\* str/list comparison: lexicographic on words
WordLess(v, w) ==
    \E p \in Positions :
        /\ \A q \in Positions : q < p => v[q] = w[q]
        /\ Ord(v[p]) < Ord(w[p])

RECURSIVE SortedInts(_)
\* sorted(set of ints)
SortedInts(S) ==
    IF S = {} THEN << >>
    ELSE LET m == CHOOSE x \in S : \A y \in S : x <= y
         IN  << m >> \o SortedInts(S \ {m})

RECURSIVE SortedLetters(_)
\* sorted(set of letters)
SortedLetters(S) ==
    IF S = {} THEN << >>
    ELSE LET m == CHOOSE x \in S : \A y \in S : Ord(x) <= Ord(y)
         IN  << m >> \o SortedLetters(S \ {m})

\* ------------------------------------------------------------------------
\* GameState
\* ------------------------------------------------------------------------

\* GameState.__init__
GameState ==
    [turn |-> 1, elim |-> {}, green |-> [p \in Positions |-> None],
     yellow |-> << >>]

\* the live object as one value
self == [turn |-> turn, elim |-> elim, green |-> green, yellow |-> yellow]

\* GameState.yellow_letters
yellow_letters(s) == { s.yellow[i].letter : i \in 1 .. Len(s.yellow) }

\* GameState.letter_in_yellow
letter_in_yellow(s, letter) == letter \in yellow_letters(s)

\* self.yellow[letter]
yellow_tried(s, letter) ==
    LET i == CHOOSE j \in 1 .. Len(s.yellow) : s.yellow[j].letter = letter
    IN  s.yellow[i].tried

\* self.yellow[letter] = set() when missing, then self.yellow[letter].add(position)
yellow_add(y, letter, position) ==
    IF \E i \in 1 .. Len(y) : y[i].letter = letter
    THEN [i \in 1 .. Len(y) |->
            IF y[i].letter = letter
            THEN [y[i] EXCEPT !.tried = @ \cup {position}]
            ELSE y[i]]
    ELSE Append(y, [letter |-> letter, tried |-> {position}])

\* del self.yellow[letter]
yellow_del(y, letter) == SelectSeq(y, LAMBDA e : e.letter # letter)

\* increment_turn with the bound forgotten
increment_turn_unbounded(s) ==
    [st |-> [s EXCEPT !.turn = @ + 1], err |-> NoError]

\* GameState.increment_turn: the new object and the error raised, if any
increment_turn(s) ==
    IF s.turn = MaxTurn
    THEN [st |-> s, err |-> "RuntimeError"]
    ELSE [st |-> [s EXCEPT !.turn = @ + 1], err |-> NoError]

\* the loop body with the assertion and its else dropped: a correct label
\* always writes green[position]
update_label_overwrite(s, position, letter, label) ==
    IF label = "0"
    THEN [st |-> [s EXCEPT !.elim = @ \cup {letter}], err |-> NoError]
    ELSE IF label = "1"
    THEN [st |-> [s EXCEPT !.yellow = yellow_add(@, letter, position)],
          err |-> NoError]
    ELSE [st |-> [s EXCEPT !.green[position] = letter,
                           !.yellow = IF letter_in_yellow(s, letter)
                                      THEN yellow_del(@, letter)
                                      ELSE @],
          err |-> NoError]

\* the loop body with `del self.yellow[letter]` forgotten
update_label_keep_yellow(s, position, letter, label) ==
    IF label = "0"
    THEN [st |-> [s EXCEPT !.elim = @ \cup {letter}], err |-> NoError]
    ELSE IF label = "1"
    THEN [st |-> [s EXCEPT !.yellow = yellow_add(@, letter, position)],
          err |-> NoError]
    ELSE IF s.green[position] # None
    THEN IF letter = s.green[position]
         THEN [st |-> s, err |-> NoError]
         ELSE [st |-> s, err |-> "AssertionError"]
    ELSE [st |-> [s EXCEPT !.green[position] = letter], err |-> NoError]

\* One pass of the loop body of GameState.update
update_label(s, position, letter, label) ==
    IF label = "0"
    THEN [st |-> [s EXCEPT !.elim = @ \cup {letter}], err |-> NoError]
    ELSE IF label = "1"
    THEN [st |-> [s EXCEPT !.yellow = yellow_add(@, letter, position)],
          err |-> NoError]
    ELSE IF label = "2"
    THEN IF s.green[position] # None
         THEN IF letter = s.green[position]
              THEN [st |-> s, err |-> NoError]
              ELSE [st |-> s, err |-> "AssertionError"]
         ELSE [st |-> [s EXCEPT !.green[position] = letter,
                                !.yellow = IF letter_in_yellow(s, letter)
                                           THEN yellow_del(@, letter)
                                           ELSE @],
               err |-> NoError]
    ELSE [st |-> s, err |-> NoError]

RECURSIVE update_loop(_, _, _, _, _)
\* The for loop of GameState.update from `position` on; trace holds the
\* object after each label processed so far
update_loop(s, guess, labels, position, trace) ==
    IF position = WordLen
    THEN [st |-> s, err |-> NoError, trace |-> trace]
    ELSE LET r == update_label(s, position, guess[position], labels[position])
         IN  IF r.err # NoError
             THEN [st |-> r.st, err |-> r.err, trace |-> trace]
             ELSE update_loop(r.st, guess, labels, position + 1,
                              Append(trace, r.st))

\* GameState.update
update(s, guess, labels, inc) ==
    LET t == IF inc THEN increment_turn(s) ELSE [st |-> s, err |-> NoError]
    IN  IF t.err # NoError
        THEN [st |-> t.st, err |-> t.err, trace |-> << >>]
        ELSE update_loop(t.st, guess, labels, 0, << >>)

\* GameState.get_tried_yellows_for_position
get_tried_yellows_for_position(s, position) ==
    { s.yellow[i].letter :
        i \in { j \in 1 .. Len(s.yellow) : position \in s.yellow[j].tried } }

\* ------------------------------------------------------------------------
\* generate_guesses
\* ------------------------------------------------------------------------

\* green_pos: the positions whose green letter is known
green_pos(s) == { i \in Positions : s.green[i] # None }

\* ylet_to_open[letter] for the i-th key of yellow
open_positions(s, i) == (Positions \ s.yellow[i].tried) \ green_pos(s)

RECURSIVE find_green(_, _, _)
\* The loop that fills green_found, over the keys of yellow in insertion
\* order from the i-th on: a letter with one open position is written at
\* that position, over whatever an earlier letter left there
find_green(s, i, found) ==
    IF i > Len(s.yellow)
    THEN [green_found |-> found, err |-> NoError]
    ELSE LET openset == open_positions(s, i)
         IN  IF Cardinality(openset) = 1
             THEN LET only_pos == CHOOSE p \in openset : TRUE
                  IN  IF s.green[only_pos] # None
                      THEN [green_found |-> found, err |-> "RuntimeError"]
                      ELSE find_green(s, i + 1,
                               [found EXCEPT ![only_pos] = s.yellow[i].letter])
             ELSE find_green(s, i + 1, found)

\* the keys left in ylet_to_open once the letters with one open position
\* are deleted
ambiguous_letters(s) ==
    { s.yellow[i].letter :
        i \in { j \in 1 .. Len(s.yellow) :
                  Cardinality(open_positions(s, j)) # 1 } }

\* green_template: the green letters, then the letters of green_found
green_template(s, found) ==
    [p \in Positions |->
        IF found[p] # None THEN found[p]
        ELSE IF s.green[p] = None THEN "_" ELSE s.green[p]]

RECURSIVE chain(_)
\* concatenation of a sequence of sequences
chain(ss) == IF ss = << >> THEN << >> ELSE Head(ss) \o chain(Tail(ss))

RECURSIVE product(_)
\* itertools.product(*lists), in its order
product(lists) ==
    IF lists = << >> THEN << << >> >>
    ELSE LET h == Head(lists)
             rest == product(Tail(lists))
         IN  chain([i \in 1 .. Len(h) |->
                      [j \in 1 .. Len(rest) |-> << h[i] >> \o rest[j]]])

\* len(x) == len(set(x))
all_distinct(x) == Cardinality({ x[k] : k \in 1 .. Len(x) }) = Len(x)

\* template = copy(green_template), then template[pos] = ylet for each
\* letter and its position in poslist
place(base, sorted_ylets, poslist) ==
    [p \in Positions |->
        IF \E k \in 1 .. Len(sorted_ylets) : poslist[k] = p
        THEN sorted_ylets[CHOOSE k \in 1 .. Len(sorted_ylets) : poslist[k] = p]
        ELSE base[p]]

\* openlists: the sorted open positions of each of the sorted letters
openlists(s, sorted_ylets) ==
    [k \in 1 .. Len(sorted_ylets) |->
        SortedInts(open_positions(s,
            CHOOSE j \in 1 .. Len(s.yellow) :
                s.yellow[j].letter = sorted_ylets[k]))]

\* one template per poslist
templates_for(base, sorted_ylets, poslists) ==
    [n \in 1 .. Len(poslists) |-> place(base, sorted_ylets, poslists[n])]

\* the else branch: the placements of the sorted letters at distinct open
\* positions
placed_templates(s, base, sorted_ylets) ==
    templates_for(base, sorted_ylets,
        SelectSeq(product(openlists(s, sorted_ylets)), all_distinct))

\* The templates: green_template alone when no letter is left in
\* ylet_to_open, else one per placement
make_templates(s, found) ==
    IF ambiguous_letters(s) = {}
    THEN << green_template(s, found) >>
    ELSE placed_templates(s, green_template(s, found),
                          SortedLetters(ambiguous_letters(s)))

\* the character class written at a '_' slot
char_class(s, pos) ==
    (Letters \ s.elim) \ get_tried_yellows_for_position(s, pos)

\* p.match(word) for the pattern made from a template.  The class is never
\* empty here: the guesses of this model use three of the 26 letters.
pattern_match(s, template, word) ==
    \A pos \in Positions :
        IF template[pos] = "_"
        THEN word[pos] \in char_class(s, pos)
        ELSE word[pos] = template[pos]

\* what generate_guesses yields when it raises
generate_failed(err) ==
    [err |-> err, guesses |-> << >>, green_found |-> NoWord]

\* the loop over words: a word is kept when some pattern matches it
matching_words(s, dictionary, templates) ==
    SelectSeq(dictionary,
        LAMBDA word :
            \E n \in 1 .. Len(templates) :
                pattern_match(s, templates[n], word))

\* generate_guesses from the point where green_found is known
generate_from(s, dictionary, f) ==
    IF f.err # NoError
    THEN generate_failed(f.err)
    ELSE [err |-> NoError,
          guesses |-> matching_words(s, dictionary,
                                     make_templates(s, f.green_found)),
          green_found |-> f.green_found]

\* generate_guesses with the check for an empty open set dropped
generate_guesses_unchecked(s, dictionary) ==
    generate_from(s, dictionary, find_green(s, 1, NoWord))

\* generate_guesses: (guesses, green_found), or the error raised.  The
\* message built at line 137 reads ylet before the loop that assigns it, so
\* the exception is UnboundLocalError.
generate_guesses(s, dictionary) ==
    IF \E i \in 1 .. Len(s.yellow) : open_positions(s, i) = {}
    THEN generate_failed("UnboundLocalError")
    ELSE generate_from(s, dictionary, find_green(s, 1, NoWord))

\* ------------------------------------------------------------------------
\* generate_ranked_guesses (criteria word-freq and next-guess-freq)
\* ------------------------------------------------------------------------

RECURSIVE sorted_by_score_unstable(_, _)
\* a sort that puts an entry after the entries of equal score that followed
\* it in the input
sorted_by_score_unstable(scored, reverse) ==
    IF scored = << >> THEN << >>
    ELSE LET x == Head(scored)
             rest == sorted_by_score_unstable(Tail(scored), reverse)
             ahead(y) == IF reverse THEN y[2] >= x[2] ELSE y[2] <= x[2]
             k == Cardinality({ j \in 1 .. Len(rest) : ahead(rest[j]) })
         IN  SubSeq(rest, 1, k) \o << x >> \o SubSeq(rest, k + 1, Len(rest))

RECURSIVE sorted_by_score(_, _)
\* sorted(scored_guesses, key=lambda x: x[1], reverse=reverse): Python's
\* sort is stable in both directions, so entries with equal scores keep
\* the order they had in scored_guesses
sorted_by_score(scored, reverse) ==
    IF scored = << >> THEN << >>
    ELSE LET x == Head(scored)
             rest == sorted_by_score(Tail(scored), reverse)
             ahead(y) == IF reverse THEN y[2] > x[2] ELSE y[2] < x[2]
             k == Cardinality({ j \in 1 .. Len(rest) : ahead(rest[j]) })
         IN  SubSeq(rest, 1, k) \o << x >> \o SubSeq(rest, k + 1, Len(rest))

\* The labels list of the next-guess-freq branch after its loop over the
\* positions: the loop body compares labels[pos] with '2' and assigns
\* nothing, so the list stays as it was built
simulation_labels(s, found) == [pos \in Positions |-> "0"]

\* One pass of the loop over the guesses: the copy updated with the
\* labels (increment_turn left at its default) and the guesses generated
\* from it
simulate(s, g, labels, dictionary) ==
    LET u == update(s, g, labels, TRUE)
    IN  IF u.err # NoError
        THEN [err |-> u.err, next_state |-> u.st, next_guesses |-> << >>]
        ELSE LET n == generate_guesses(u.st, dictionary)
             IN  [err |-> n.err, next_state |-> u.st,
                  next_guesses |-> n.guesses]

\* what generate_ranked_guesses yields before any ranking: the error, the
\* locals guesses and green_found, and nothing ranked or simulated
unranked(g) ==
    [err |-> g.err, guesses |-> g.guesses, green_found |-> g.green_found,
     ranked |-> << >>, labels |-> NoWord, next_states |-> << >>]

\* the word-freq branch
word_freq_ranking(g, table) ==
    [unranked(g) EXCEPT
        !.ranked = sorted_by_score(
            [i \in 1 .. Len(g.guesses) |->
                << g.guesses[i], table[g.guesses[i]] >>], TRUE)]

\* next_guess_fd[w] (0 when w is not a key)
next_guess_count(sims, w) ==
    Cardinality({ i \in 1 .. Len(sims) :
        \E j \in 1 .. Len(sims[i].next_guesses) :
            sims[i].next_guesses[j] = w })

\* the simulations up to the first that raised
first_failure(sims) ==
    CHOOSE i \in 1 .. Len(sims) :
        /\ sims[i].err # NoError
        /\ \A j \in 1 .. i - 1 : sims[j].err = NoError

\* the next-guess-freq branch once every guess is simulated: the first
\* exception of the loop, else the one raised after it when there was no
\* guess (gix is unbound at line 250), else the ascending ranking
next_guess_freq_ranking(g, labels, sims) ==
    IF \E i \in 1 .. Len(sims) : sims[i].err # NoError
    THEN [unranked(g) EXCEPT
            !.err = sims[first_failure(sims)].err,
            !.labels = labels,
            !.next_states = [i \in 1 .. first_failure(sims) |->
                                sims[i].next_state]]
    ELSE IF g.guesses = << >>
    THEN [unranked(g) EXCEPT !.err = "UnboundLocalError", !.labels = labels]
    ELSE [unranked(g) EXCEPT
            !.labels = labels,
            !.next_states = [i \in 1 .. Len(sims) |-> sims[i].next_state],
            !.ranked = sorted_by_score(
                [i \in 1 .. Len(g.guesses) |->
                    << g.guesses[i], next_guess_count(sims, g.guesses[i]) >>],
                FALSE)]

\* the loop over the guesses
simulations(s, g, labels, dictionary) ==
    [i \in 1 .. Len(g.guesses) |->
        simulate(s, g.guesses[i], labels, dictionary)]

\* generate_ranked_guesses after its call of generate_guesses
rank_guesses(s, crit, dictionary, table, g) ==
    IF g.err # NoError THEN unranked(g)
    ELSE IF crit = "word-freq" THEN word_freq_ranking(g, table)
    ELSE next_guess_freq_ranking(g, simulation_labels(s, g.green_found),
             simulations(s, g, simulation_labels(s, g.green_found),
                         dictionary))

\* generate_ranked_guesses: the ranked (word, score) list, or the error
\* raised; guesses, green_found, labels and next_states show its locals
generate_ranked_guesses(s, crit, dictionary, table) ==
    rank_guesses(s, crit, dictionary, table, generate_guesses(s, dictionary))

\* ------------------------------------------------------------------------
\* The state machine
\* ------------------------------------------------------------------------

\* what `last` holds before any operation has run
Idle ==
    [op |-> "init", pre |-> GameState, guess |-> NoWord, labels |-> NoWord,
     inc |-> FALSE, crit |-> "", err |-> NoError, trace |-> << >>,
     guesses |-> << >>, green_found |-> NoWord, ranked |-> << >>,
     next_states |-> << >>]

\* game_state = GameState()
Fresh ==
    /\ turn = GameState.turn
    /\ elim = GameState.elim
    /\ green = GameState.green
    /\ yellow = GameState.yellow

\* The session: a fresh GameState, the dictionary in the iteration order of
\* Lexicon and its frequency table
Init ==
    /\ Fresh
    /\ words = SubSeq(Lexicon, 1, Min(NumWords, Len(Lexicon)))
    /\ fd = [w \in { words[i] : i \in 1 .. Len(words) } |->
                LexiconFreq[CHOOSE i \in 1 .. Len(Lexicon) : Lexicon[i] = w]]
    /\ last = Idle

\* the live object becomes r.st and `last` records the call and its outcome
Updated(guess, labels, inc, r) ==
    /\ turn' = r.st.turn
    /\ elim' = r.st.elim
    /\ green' = r.st.green
    /\ yellow' = r.st.yellow
    /\ last' = [Idle EXCEPT !.op = "update", !.pre = self, !.guess = guess,
                            !.labels = labels, !.inc = inc, !.err = r.err,
                            !.trace = r.trace]
    /\ UNCHANGED <<words, fd>>

\* game_state.update(guess, labels, increment_turn) with the inputs drawn
\* from the given sets.  An exception leaves the object as the statements
\* before it left it.
UpdateFrom(guessSet, labelSet, incSet) ==
    \E guess \in guessSet, labels \in labelSet, inc \in incSet :
        Updated(guess, labels, inc, update(self, guess, labels, inc))

Update == UpdateFrom(Guesses, LabelSeqs, BOOLEAN)

\* `last` records a call of generate_guesses and what it returned
Generated(r) ==
    /\ last' = [Idle EXCEPT !.op = "generate", !.pre = self, !.err = r.err,
                            !.guesses = r.guesses,
                            !.green_found = r.green_found]
    /\ UNCHANGED <<turn, elim, green, yellow, words, fd>>

\* generate_guesses(game_state)
Generate == Generated(generate_guesses(self, words))

\* `last` records a call of generate_ranked_guesses and what it returned
Ranked(crit, r) ==
    /\ last' = [Idle EXCEPT !.op = "rank", !.pre = self, !.crit = crit,
                            !.err = r.err, !.labels = r.labels,
                            !.guesses = r.guesses,
                            !.green_found = r.green_found,
                            !.ranked = r.ranked,
                            !.next_states = r.next_states]
    /\ UNCHANGED <<turn, elim, green, yellow, words, fd>>

\* generate_ranked_guesses(game_state, crit, fd)
Rank ==
    \E crit \in {"word-freq", "next-guess-freq"} :
        Ranked(crit, generate_ranked_guesses(self, crit, words, fd))

Next == Update \/ Generate \/ Rank

Spec == Init /\ [][Next]_vars

\* ------------------------------------------------------------------------
\* The ranking specification: any iteration order of a small dictionary
\* and any frequency table over it
\* ------------------------------------------------------------------------

\* every order in which a set may be iterated
Orders(S) ==
    { s \in [1 .. Cardinality(S) -> S] :
        \A i, j \in 1 .. Cardinality(S) : i # j => s[i] # s[j] }

RankLexicon == { Lexicon[i] : i \in 1 .. Min(RankWords, Len(Lexicon)) }

InitRank ==
    /\ Fresh
    /\ words \in Orders(RankLexicon)
    /\ fd \in [RankLexicon -> 0 .. MaxFreq]
    /\ last = Idle

UpdateRank == UpdateFrom({GuessList[1]}, {LabelList[2], LabelList[3]}, {TRUE})

NextRank == UpdateRank \/ Rank

SpecRank == InitRank /\ [][NextRank]_vars

\* ------------------------------------------------------------------------
\* Claims
\* ------------------------------------------------------------------------

\* the i-th key of yellow is placed by w at a position that is open for it
\* and at none of its tried positions
YellowHonoured(s, i, w) ==
    /\ \E p \in Positions :
          /\ w[p] = s.yellow[i].letter
          /\ s.green[p] = None
          /\ p \notin s.yellow[i].tried
    /\ \A p \in s.yellow[i].tried : w[p] # s.yellow[i].letter

\* w satisfies the fixed, yellow and eliminated constraints of s
Consistent(s, w) ==
    /\ \A p \in Positions : s.green[p] # None => w[p] = s.green[p]
    /\ \A i \in 1 .. Len(s.yellow) : YellowHonoured(s, i, w)
    /\ \A p \in Positions :
          (w[p] # s.green[p] /\ ~letter_in_yellow(s, w[p]))
              => w[p] \notin s.elim

\* C1: every word generate_guesses returns satisfies all the constraints
\* accumulated in the state: the fixed letters, every yellow letter placed
\* at an open position and at no tried one, and no eliminated letter at a
\* position that holds neither a fixed nor a yellow letter.
C1_Consistency ==
    (last.op = "generate" /\ last.err = NoError)
        => \A k \in 1 .. Len(last.guesses) :
               Consistent(last.pre, last.guesses[k])

\* C2: when an update succeeds and generate_guesses succeeds before and
\* after it, the updated state yields no more candidates than the state
\* before the update (same dictionary).
C2_MonotonicShrink ==
    (/\ last.op = "update"
     /\ last.err = NoError
     /\ generate_guesses(last.pre, words).err = NoError
     /\ generate_guesses(self, words).err = NoError)
        => Len(generate_guesses(self, words).guesses)
               <= Len(generate_guesses(last.pre, words).guesses)

\* the positions that are neither fixed nor tried for the i-th key of
\* yellow, from the state alone
OpenFor(s, i) ==
    { p \in Positions : s.green[p] = None /\ p \notin s.yellow[i].tried }

\* C3: generate_guesses fails, and returns no candidates, whenever some
\* letter of tried_yellow has no open position left (its tried positions
\* and the fixed positions cover all five).
C3_ContradictionDetected ==
    (/\ last.op = "generate"
     /\ \E i \in 1 .. Len(last.pre.yellow) : OpenFor(last.pre, i) = {})
        => (last.err # NoError /\ last.guesses = << >>)

\* C3 witness: generate_guesses was called with a letter reported
\* misplaced at all five positions, and failed
C3_Witness ==
    /\ last.op = "generate"
    /\ \E i \in 1 .. Len(last.pre.yellow) :
          last.pre.yellow[i].tried = Positions
    /\ last.err # NoError

\* the object before and after the label at position p of the last update
BeforeLabel(p) == IF p = 0 THEN last.pre ELSE last.trace[p]

AfterLabel(p) == last.trace[p + 1]

\* the label at position p of the last update was applied without error
Applied(p) == p < Len(last.trace)

\* the last update got past increment_turn
TurnAccepted == ~(last.inc /\ last.pre.turn = MaxTurn)

\* some label of the last update names another letter correct at a position
\* that was already fixed
RelabelsFixed ==
    \E p \in Positions :
        /\ last.labels[p] = "2"
        /\ last.pre.green[p] # None
        /\ last.pre.green[p] # last.guess[p]

\* a fixed letter is the same after the last update, failed or not
FixedKept ==
    \A p \in Positions :
        last.pre.green[p] # None => green[p] = last.pre.green[p]

\* a label that re-confirms the fixed letter leaves green and yellow as
\* they were before that label
ReconfirmIsNoOp ==
    \A p \in Positions :
        (/\ Applied(p)
         /\ last.labels[p] = "2"
         /\ last.pre.green[p] = last.guess[p])
            => /\ AfterLabel(p).green = BeforeLabel(p).green
               /\ AfterLabel(p).yellow = BeforeLabel(p).yellow

\* C4 as stated: a fixed letter never changes, whether the update succeeds
\* or fails; every update that labels a different letter correct at a
\* fixed position fails with the contradiction error (the assertion of line
\* 68); and a label that re-confirms the fixed letter leaves green and
\* yellow as they were before that label.
C4_FixedNeverChanges ==
    last.op = "update" =>
        /\ FixedKept
        /\ RelabelsFixed => last.err = "AssertionError"
        /\ ReconfirmIsNoOp

\* C4 amended: as C4, except that the update which labels a different
\* letter correct at a fixed position fails with the contradiction error
\* only when it gets past increment_turn; when it advances the turn of an
\* object whose turn is 6 it fails with the max-turns error instead, before
\* any label is read.
C4_FixedNeverChangesTurnFirst ==
    last.op = "update" =>
        /\ FixedKept
        /\ RelabelsFixed
              => last.err = IF TurnAccepted THEN "AssertionError"
                            ELSE "RuntimeError"
        /\ ReconfirmIsNoOp

\* C4 witness: an update labelled another letter correct at a fixed
\* position and failed with the assertion error
C4_Witness ==
    /\ last.op = "update"
    /\ last.err = "AssertionError"
    /\ \E p \in Positions :
          /\ last.labels[p] = "2"
          /\ last.pre.green[p] # None
          /\ last.pre.green[p] # last.guess[p]
          /\ green[p] = last.pre.green[p]

\* C5: turn never exceeds 6; an update that advances the turn on a state
\* whose turn is 6 fails with the max-turns error before any label is
\* applied and changes nothing; every other update that advances the turn
\* raises it by exactly 1.
C5_TurnBound ==
    /\ turn \in 1 .. MaxTurn
    /\ (last.op = "update" /\ last.inc) =>
          IF last.pre.turn = MaxTurn
          THEN /\ last.err = "RuntimeError"
               /\ last.trace = << >>
               /\ self = last.pre
          ELSE turn = last.pre.turn + 1

\* C5 witness: an update that advances the turn was refused at turn 6
C5_Witness ==
    /\ last.op = "update"
    /\ last.inc
    /\ last.pre.turn = MaxTurn
    /\ last.err = "RuntimeError"

\* the label at position p of the last update fixed a letter at a position
\* that was unset
FixedHere(p) ==
    /\ Applied(p)
    /\ last.labels[p] = "2"
    /\ last.pre.green[p] = None

\* C6 as stated: after a successful update no letter that the call fixed
\* at a previously unset position is a key of tried_yellow.
C6_FixedLetterNotYellow ==
    (last.op = "update" /\ last.err = NoError)
        => \A p \in Positions :
               FixedHere(p) => ~letter_in_yellow(self, last.guess[p])

\* C6 amended: right after the label that fixes a letter at an unset
\* position the letter is not a key of tried_yellow; when the update
\* returns it is a key only if a later position of the same guess holds
\* the same letter labelled misplaced, and its tried set then holds only
\* such later positions.
C6_RemovedWhenFixed ==
    last.op = "update" =>
        \A p \in Positions :
            FixedHere(p) =>
                /\ ~letter_in_yellow(AfterLabel(p), last.guess[p])
                /\ (last.err = NoError /\ letter_in_yellow(self, last.guess[p]))
                      => /\ yellow_tried(self, last.guess[p]) # {}
                         /\ yellow_tried(self, last.guess[p]) \subseteq
                                { q \in Positions :
                                    /\ q > p
                                    /\ last.guess[q] = last.guess[p]
                                    /\ last.labels[q] = "1" }

\* C6 witness: a successful update fixed, at an unset position, a letter
\* that was a key of tried_yellow, and the letter is no longer a key
C6_Witness ==
    /\ last.op = "update"
    /\ last.err = NoError
    /\ \E p \in Positions :
          /\ FixedHere(p)
          /\ letter_in_yellow(last.pre, last.guess[p])
          /\ ~letter_in_yellow(self, last.guess[p])

\* the ranked list holds each candidate once, with its frequency, by
\* descending frequency
RankedByFrequency ==
    /\ Len(last.ranked) = Len(last.guesses)
    /\ \A i \in 1 .. Len(last.ranked) :
          /\ \E k \in 1 .. Len(last.guesses) :
                last.ranked[i][1] = last.guesses[k]
          /\ last.ranked[i][2] = fd[last.ranked[i][1]]
    /\ \A i, j \in 1 .. Len(last.ranked) :
          i < j => /\ last.ranked[i][1] # last.ranked[j][1]
                   /\ last.ranked[i][2] >= last.ranked[j][2]

\* the place of a word in the candidate list
CandidateIndex(w) ==
    CHOOSE k \in 1 .. Len(last.guesses) : last.guesses[k] = w

\* C7 as stated: the word-freq ranking holds exactly the candidates with
\* their frequencies, by descending frequency, and words of equal
\* frequency are in ascending lexical order.
C7_TiesAlphabetical ==
    (last.op = "rank" /\ last.crit = "word-freq" /\ last.err = NoError)
        => /\ RankedByFrequency
           /\ \A i, j \in 1 .. Len(last.ranked) :
                 (i < j /\ last.ranked[i][2] = last.ranked[j][2])
                     => WordLess(last.ranked[i][1], last.ranked[j][1])

\* C7 amended: the word-freq ranking holds exactly the candidates with
\* their frequencies, by descending frequency, and words of equal
\* frequency keep the order in which generate_guesses returned them (the
\* iteration order of the dictionary).
C7_TiesKeepCandidateOrder ==
    (last.op = "rank" /\ last.crit = "word-freq" /\ last.err = NoError)
        => /\ RankedByFrequency
           /\ \A i, j \in 1 .. Len(last.ranked) :
                 (i < j /\ last.ranked[i][2] = last.ranked[j][2])
                     => CandidateIndex(last.ranked[i][1])
                            < CandidateIndex(last.ranked[j][1])

\* C7 witness: a word-freq ranking with two candidates of equal frequency
\* and a third of higher frequency that the dictionary iterates last
C7_Witness ==
    /\ last.op = "rank"
    /\ last.crit = "word-freq"
    /\ last.err = NoError
    /\ Len(last.ranked) >= 3
    /\ \E i, j \in 1 .. Len(last.ranked) :
          i < j /\ last.ranked[i][2] = last.ranked[j][2]
    /\ last.ranked[1][1] = last.guesses[Len(last.guesses)]
    /\ last.ranked[1][2] > last.ranked[2][2]

\* C8: a yellow letter with exactly one open position p is returned as
\* inferred_fixed[p] and every returned candidate holds it at p, unless
\* generate_guesses fails.
C8_InferredFixed ==
    last.op = "generate" =>
        \A i \in 1 .. Len(last.pre.yellow), p \in Positions :
            OpenFor(last.pre, i) = {p} =>
                \/ last.err # NoError
                \/ /\ last.green_found[p] = last.pre.yellow[i].letter
                   /\ \A k \in 1 .. Len(last.guesses) :
                         last.guesses[k][p] = last.pre.yellow[i].letter

\* the positions that are fixed or inferred fixed in the last ranking
Resolved ==
    { p \in Positions :
        last.pre.green[p] # None \/ last.green_found[p] # None }

\* C9: in the next-guess-freq simulation the labels applied to the copy
\* are '2' at every fixed or inferred-fixed position and '0' elsewhere, so
\* each simulated update eliminates only the guess's letters at the
\* unresolved positions.
C9_SimulationLabels ==
    (/\ last.op = "rank"
     /\ last.crit = "next-guess-freq"
     /\ last.err = NoError)
        => \A k \in 1 .. Len(last.next_states) :
               /\ \A p \in Positions :
                     last.labels[p] = IF p \in Resolved THEN "2" ELSE "0"
               /\ last.next_states[k].elim =
                      last.pre.elim \cup
                          { last.guesses[k][p] : p \in Positions \ Resolved }

\* C10: a next-guess-freq ranking of the live state, at any turn 1..6 with
\* a non-empty candidate set, returns one entry per candidate, never fails
\* with the max-turns error of the update applied to the copy, and leaves
\* the live state as it was.
C10_SimulationIgnoresTurn ==
    (/\ last.op = "rank"
     /\ last.crit = "next-guess-freq"
     /\ last.pre.turn \in 1 .. MaxTurn
     /\ last.guesses # << >>)
        => /\ last.err = NoError
           /\ Len(last.ranked) = Len(last.guesses)
           /\ self = last.pre

====
